---------------------------- MODULE Spec2Model ----------------------------
(***************************************************************************)
(* The daily "spin the wheel" draw of src/server.js.                       *)
(*                                                                         *)
(* src/server.js holds two revisions of the server.  Revision 1 (lines     *)
(* 1-183) attaches fixed coupon codes; revision 2 (lines 185-415) asks     *)
(* the commerce platform for a coupon before it records the spin.  The     *)
(* variable deploy says which revision is running.                         *)
(*                                                                         *)
(* Node runs a handler without interruption between two awaits, so each    *)
(* action below is one awaited operation (a database statement or an       *)
(* external call) together with the synchronous code that follows it up    *)
(* to the next await.  The database executes each statement atomically.    *)
(***************************************************************************)
EXTENDS Integers, Sequences, FiniteSets, TLC

\* ----------------------------------------------------------------- bounds
MaxRequests == 2      \* POST /spin requests in one behaviour of Spec
MaxSeqRequests == 3   \* POST /spin requests in one behaviour of SpecSeq
MaxStock == 1         \* largest initial stock of a gift
MaxTime == 2          \* the clock runs over 0..MaxTime
TicksPerDay == 2      \* clock ticks in one calendar day
MaxLen == 3           \* longest weight table handed to weightedRandom alone
MaxWeight == 2        \* largest weight in such a table

\* ------------------------------------------------------- program constants
MaxTries == 10

PRIZE_CONFIG ==
  << [value |-> "nothing", weight |-> 15],
     [value |-> "-5%",     weight |-> 30],
     [value |-> "-10%",    weight |-> 25],
     [value |-> "-20%",    weight |-> 15],
     [value |-> "CADEAU1", weight |-> 8],
     [value |-> "CADEAU2", weight |-> 7] >>

\* ------------------------------------------------------------------ values
Users == {"u1", "u2"}
NoUser == ""                          \* req.body.userId missing (falsy)
NULL == <<>>                          \* SQL NULL; a number n is <<n>>
Num(n) == <<n>>
NoCoupon == "null"                    \* couponCode: null
NoPrize == "undefined"                \* let chosen; not yet assigned
NoMessage == ""                       \* no error message in the response
NotConnected == "Il faut etre connecte pour jouer."
AlreadyPlayed == "Tu as deja joue aujourd'hui !"
ServerError == "Erreur serveur"

Values == {PRIZE_CONFIG[i].value : i \in 1..Len(PRIZE_CONFIG)}
Gifts == {"CADEAU1", "CADEAU2"}
Discounts == {"-5%", "-10%", "-20%"}

VARIABLES
  deploy,      \* 1 or 2: the revision of server.js that runs
  now,         \* the clock (new Date(), NOW())
  prizes,      \* table prizes: value -> stock (NULL or <<n>>)
  prizes0,     \* history: table prizes as seeded, never changed
  awards,      \* history: per gift, the stock updates applied so far
  spins,       \* table spins: sequence of rows, in insertion order
  pc,          \* per request: the await the handler is suspended at
  userId,      \* per request: req.body.userId
  chosen,      \* per request: chosen.value
  couponCode,  \* per request: couponCode
  status,      \* per request: HTTP status of the response, 0 before it
  message,     \* per request: message of an error response
  shop,        \* per request: what the commerce platform was asked
  table,       \* the list handed to weightedRandom
  nTries,      \* tries: the retry counter of the draw loop in progress
  random,      \* Math.random() * total of the last draw
  confValue    \* conf.value of the last draw

\* The requests of the behaviour.
Requests == DOMAIN pc

\* The draw loop's own variables.  The loop is synchronous: where a whole
\* handler step is one action, it starts and ends inside the step and these
\* stay as they are; SpecDraw and SpecWeighted below run it draw by draw.
drawVars == <<table, nTries, random, confValue>>

vars == <<deploy, now, prizes, prizes0, awards, spins, pc, userId, chosen,
          couponCode, status, message, shop, drawVars>>

\* ---------------------------------------------------------- pure functions
RECURSIVE SumWeights(_, _)
SumWeights(list, n) ==
  IF n = 0 THEN 0 ELSE SumWeights(list, n - 1) + list[n].weight

total(list) == SumWeights(list, Len(list))

\* Mutant of Walk: the test is r <= item.weight.
RECURSIVE Walk_Inclusive(_, _, _)
Walk_Inclusive(list, i, r) ==
  IF i > Len(list) THEN list[Len(list)]
  ELSE IF r <= list[i].weight THEN list[i]
  ELSE Walk_Inclusive(list, i + 1, r - list[i].weight)

\* The walk of weightedRandom from entry i with the remaining draw value r.
RECURSIVE Walk(_, _, _)
Walk(list, i, r) ==
  IF i > Len(list) THEN list[Len(list)]
  ELSE IF r < list[i].weight THEN list[i]
  ELSE Walk(list, i + 1, r - list[i].weight)

\* weightedRandom(list) with Math.random() * total = r.
weightedRandom(list, r) == Walk(list, 1, r)

\* The integer draw values; every entry of the table is selected by some.
DrawValues == 0..(total(PRIZE_CONFIG) - 1)

Selectable == {weightedRandom(PRIZE_CONFIG, r) : r \in DrawValues}

\* Mutant of startsWithCADEAU: the stock test applies to every prize.
startsWithCADEAU_Any(v) == TRUE

startsWithCADEAU(v) == v \in Gifts

\* Date.toDateString(): the calendar day of an instant.
toDateString(t) == t \div TicksPerDay


\* ------------------------------------------------------------ SQL helpers
\* stock - 1: NULL stays NULL.
SqlMinusOne(s) == IF s = NULL THEN NULL ELSE Num(s[1] - 1)

\* Mutant of GREATEST: no floor, the first argument as it is.
GREATEST_NoFloor(a, b) == a

\* PostgreSQL GREATEST(a, b): NULL arguments are ignored.
GREATEST(a, b) ==
  IF a = NULL THEN b
  ELSE IF b = NULL THEN a
  ELSE IF a[1] >= b[1] THEN a ELSE b

\* Mutant of LastSpinDate: ORDER BY spin_date ASC, the oldest row.
LastSpinDate_Oldest(u) ==
  LET mine == {i \in 1..Len(spins) : spins[i].user_id = u}
  IN {spins[i].spin_date : i \in
        {i \in mine : \A j \in mine : spins[j].spin_date >= spins[i].spin_date}}

\* SELECT spin_date FROM spins WHERE user_id = $1 ORDER BY spin_date DESC LIMIT 1
LastSpinDate(u) ==
  LET mine == {i \in 1..Len(spins) : spins[i].user_id = u}
  IN {spins[i].spin_date : i \in
        {i \in mine : \A j \in mine : spins[j].spin_date <= spins[i].spin_date}}

\* ---------------------------------------------------------- eligibility gate
\* Mutant of userCanPlayToday: a rolling window of one day.
userCanPlayToday_Rolling(u) ==
  LET rows == LastSpinDate(u)
  IN IF rows = {} THEN TRUE
     ELSE LET last == CHOOSE d \in rows : TRUE
          IN now - last >= TicksPerDay

userCanPlayToday(u) ==
  LET rows == LastSpinDate(u)
  IN IF rows = {} THEN TRUE
     ELSE LET last == CHOOSE d \in rows : TRUE
          IN toDateString(last) # toDateString(now)

\* ---------------------------------------------------------------- draw loop
\* Mutant of drawLoop: the stock test is stock < 0.
RECURSIVE drawLoop_Negative(_, _)
drawLoop_Negative(prizeMap, tries) ==
  LET retry == IF tries + 1 > MaxTries THEN {"nothing"}
               ELSE drawLoop_Negative(prizeMap, tries + 1)
  IN UNION {
       IF conf.value \notin DOMAIN prizeMap THEN {"nothing"}
       ELSE IF /\ startsWithCADEAU(conf.value)
               /\ prizeMap[conf.value] # NULL
               /\ prizeMap[conf.value][1] < 0
            THEN retry
       ELSE {conf.value}
     : conf \in Selectable }

\* The do/while of POST /spin on the snapshot prizeMap, entered with the
\* given number of tries: the set of values chosen.value can end with, over
\* every sequence of random draws.
RECURSIVE drawLoop(_, _)
drawLoop(prizeMap, tries) ==
  LET retry == IF tries + 1 > MaxTries THEN {"nothing"}
               ELSE drawLoop(prizeMap, tries + 1)
  IN UNION {
       IF conf.value \notin DOMAIN prizeMap THEN {"nothing"}
       ELSE IF /\ startsWithCADEAU(conf.value)
               /\ prizeMap[conf.value] # NULL
               /\ prizeMap[conf.value][1] <= 0
            THEN retry
       ELSE {conf.value}
     : conf \in Selectable }

\* Mutant of fixedCouponCode: the last else yields a code too.
fixedCouponCode_Always(v) ==
  IF v = "-10%" THEN "NOEL10"
  ELSE IF v = "-20%" THEN "NOEL20"
  ELSE "NOEL5"

\* Revision 1: the fixed coupon codes.
fixedCouponCode(v) ==
  IF v = "-5%" THEN "NOEL5"
  ELSE IF v = "-10%" THEN "NOEL10"
  ELSE IF v = "-20%" THEN "NOEL20"
  ELSE NoCoupon

\* Revision 2: the values a coupon is requested for.
isDiscount(v) == v = "-5%" \/ v = "-10%" \/ v = "-20%"

\* Revision 2: parseInt(value.replace('-', '').replace('%', ''), 10).
percentNumber(v) ==
  IF v = "-5%" THEN 5 ELSE IF v = "-10%" THEN 10 ELSE 20

\* Revision 2: the code asked for, YUNII-<percent>-<8 random hex digits>;
\* the random suffix is left out.
couponFor(v) ==
  LET n == percentNumber(v)
  IN IF n = 5 THEN "YUNII-5" ELSE IF n = 10 THEN "YUNII-10" ELSE "YUNII-20"

\* --------------------------------------------------------------------- Init
\* The stock a gift is seeded with: unlimited, exhausted or MaxStock units.
GiftStocks == {NULL, Num(0), Num(MaxStock)}

\* The prizes table as seeded.  The code tolerates a table that lacks rows
\* of the weight table, and the catalogs keep to three rows:
\*   - both gifts, CADEAU1 with any stock and CADEAU2 exhausted;
\*   - a discount (with stock 0) and an exhausted gift.
\* The values without a row are drawn all the same.
Catalogs ==
  { [v \in {"nothing", "CADEAU1", "CADEAU2"} |->
       IF v = "CADEAU1" THEN s ELSE IF v = "CADEAU2" THEN Num(0) ELSE NULL]
    : s \in GiftStocks }
  \cup
  { [v \in {"nothing", "-10%", "CADEAU2"} |->
       IF v = "nothing" THEN NULL ELSE Num(0)] }

\* The state after the server started, before the first of n requests.
InitWith(n) ==
  /\ deploy \in {1, 2}
  /\ now = 0
  /\ prizes \in Catalogs
  /\ prizes0 = prizes
  /\ awards = [g \in Gifts |-> 0]
  /\ spins = <<>>
  /\ pc = [r \in 1..n |-> "idle"]
  /\ userId = [r \in 1..n |-> NoUser]
  /\ chosen = [r \in 1..n |-> NoPrize]
  /\ couponCode = [r \in 1..n |-> NoCoupon]
  /\ status = [r \in 1..n |-> 0]
  /\ message = [r \in 1..n |-> NoMessage]
  /\ shop = [r \in 1..n |-> "notcalled"]
  /\ table = PRIZE_CONFIG
  /\ nTries = 0
  /\ random = 0
  /\ confValue = NoPrize

Init == InitWith(MaxRequests)

\* ------------------------------------------------------------------ actions
\* The handler goes on to its next await.
Goto(r, label) ==
  /\ pc' = [pc EXCEPT ![r] = label]
  /\ UNCHANGED <<status, message>>

\* res.status(code).json(...): the response ends the request, and the
\* handler's locals go with it.
Respond(r, code, msg) ==
  /\ status' = [status EXCEPT ![r] = code]
  /\ message' = [message EXCEPT ![r] = msg]
  /\ pc' = [pc EXCEPT ![r] = "done"]
  /\ userId' = [userId EXCEPT ![r] = NoUser]
  /\ chosen' = [chosen EXCEPT ![r] = NoPrize]
  /\ couponCode' = [couponCode EXCEPT ![r] = NoCoupon]
  /\ shop' = [shop EXCEPT ![r] = "notcalled"]

\* POST /spin arrives with body {userId: u}.  Requests are numbered in the
\* order they arrive, and the users in the order they first play: nothing in
\* the code tells one user id from another.
Receive(r, u) ==
  /\ pc[r] = "idle"
  /\ \A q \in Requests : q < r => pc[q] # "idle"
  /\ r = 1 => u # "u2"
  /\ IF u = NoUser
     THEN Respond(r, 400, NotConnected)
     ELSE /\ Goto(r, "gate")
          /\ userId' = [userId EXCEPT ![r] = u]
          /\ UNCHANGED <<chosen, couponCode, shop>>
  /\ UNCHANGED <<drawVars, deploy, now, prizes, prizes0, spins, awards>>

\* Mutant of Gate: the rejected attempt is logged in spins.
Gate_LogsAttempt(r) ==
  /\ pc[r] = "gate"
  /\ IF ~userCanPlayToday(userId[r])
     THEN /\ Respond(r, 400, AlreadyPlayed)
          /\ spins' = Append(spins, [user_id |-> userId[r],
                                     prize_value |-> "nothing",
                                     spin_date |-> now])
     ELSE /\ Goto(r, "catalog")
          /\ UNCHANGED <<userId, chosen, couponCode, shop, spins>>
  /\ UNCHANGED <<drawVars, deploy, now, prizes, prizes0, awards>>

\* Mutant of Gate: a per-user lock, the gate turns away a user who has
\* another request past the gate.
Gate_Locked(r) ==
  /\ pc[r] = "gate"
  /\ IF \/ ~userCanPlayToday(userId[r])
        \/ \E q \in Requests \ {r} :
             userId[q] = userId[r] /\ pc[q] \notin {"idle", "gate", "done"}
     THEN Respond(r, 400, AlreadyPlayed)
     ELSE /\ Goto(r, "catalog")
          /\ UNCHANGED <<userId, chosen, couponCode, shop>>
  /\ UNCHANGED <<drawVars, deploy, now, prizes, prizes0, spins, awards>>

\* await userCanPlayToday(userId), then the prizes query is sent.
Gate(r) ==
  /\ pc[r] = "gate"
  /\ IF ~userCanPlayToday(userId[r])
     THEN Respond(r, 400, AlreadyPlayed)
     ELSE /\ Goto(r, "catalog")
          /\ UNCHANGED <<userId, chosen, couponCode, shop>>
  /\ UNCHANGED <<drawVars, deploy, now, prizes, prizes0, spins, awards>>

\* await SELECT ... FROM prizes, the draw loop on that snapshot, then the
\* coupon code (revision 1) or the first call to the platform (revision 2).
Catalog(r) ==
  /\ pc[r] = "catalog"
  /\ \E v \in drawLoop(prizes, 0) :
       /\ chosen' = [chosen EXCEPT ![r] = v]
       /\ IF deploy = 1
          THEN /\ couponCode' = [couponCode EXCEPT ![r] = fixedCouponCode(v)]
               /\ Goto(r, "insert")
               /\ UNCHANGED shop
          ELSE IF isDiscount(v)
          THEN /\ Goto(r, "priceRule")
               /\ shop' = [shop EXCEPT ![r] = "asked"]
               /\ UNCHANGED couponCode
          ELSE /\ Goto(r, "insert")
               /\ UNCHANGED <<couponCode, shop>>
  /\ UNCHANGED <<drawVars, deploy, now, prizes, prizes0, spins, awards, userId>>

\* Revision 2: await fetch(price_rules.json) and prRes.json().
\*   "throw":   fetch rejects (platform unreachable) or json() rejects
\*              (malformed body): the catch answers 500
\*   "norule":  a body without price_rule.id (a non-2xx answer)
\*   "ok":      a price rule id; the discount code is asked for
PriceRule(r, out) ==
  /\ pc[r] = "priceRule"
  /\ CASE out = "throw" -> Respond(r, 500, ServerError)
       [] out = "norule" ->
            /\ Goto(r, "insert")
            /\ shop' = [shop EXCEPT ![r] = "failed"]
            /\ UNCHANGED <<userId, chosen, couponCode>>
       [] out = "ok" ->
            /\ Goto(r, "discountCode")
            /\ UNCHANGED <<userId, chosen, couponCode, shop>>
  /\ UNCHANGED <<drawVars, deploy, now, prizes, prizes0, spins, awards>>

\* Revision 2: await fetch(discount_codes.json) and dcRes.json().
\*   "throw":   fetch or json() rejects: the catch answers 500
\*   "nocode":  a body without discount_code.code
\*   "ok":      the code, which becomes couponCode
DiscountCode(r, out) ==
  /\ pc[r] = "discountCode"
  /\ CASE out = "throw" -> Respond(r, 500, ServerError)
       [] out = "nocode" ->
            /\ Goto(r, "insert")
            /\ shop' = [shop EXCEPT ![r] = "failed"]
            /\ UNCHANGED <<userId, chosen, couponCode>>
       [] out = "ok" ->
            /\ Goto(r, "insert")
            /\ shop' = [shop EXCEPT ![r] = "issued"]
            /\ couponCode' = [couponCode EXCEPT ![r] = couponFor(chosen[r])]
            /\ UNCHANGED <<userId, chosen>>
  /\ UNCHANGED <<drawVars, deploy, now, prizes, prizes0, spins, awards>>

\* Mutant of Insert: only wins are logged, "nothing" is answered unrecorded.
Insert_SkipsNothing(r) ==
  /\ pc[r] = "insert"
  /\ IF chosen[r] = "nothing"
     THEN UNCHANGED spins
     ELSE spins' = Append(spins, [user_id |-> userId[r],
                                  prize_value |-> chosen[r],
                                  spin_date |-> now])
  /\ IF startsWithCADEAU(chosen[r])
     THEN /\ Goto(r, "update")
          /\ UNCHANGED <<userId, chosen, couponCode, shop>>
     ELSE Respond(r, 200, NoMessage)
  /\ UNCHANGED <<drawVars, deploy, now, prizes, prizes0, awards>>

\* await INSERT INTO spins ... NOW(); a gift goes on to the stock update,
\* anything else is answered.
Insert(r) ==
  /\ pc[r] = "insert"
  /\ spins' = Append(spins, [user_id |-> userId[r],
                             prize_value |-> chosen[r],
                             spin_date |-> now])
  /\ IF startsWithCADEAU(chosen[r])
     THEN /\ Goto(r, "update")
          /\ UNCHANGED <<userId, chosen, couponCode, shop>>
     ELSE Respond(r, 200, NoMessage)
  /\ UNCHANGED <<drawVars, deploy, now, prizes, prizes0, awards>>

\* Mutant of decrement: the update is lost.
decrement_Lost(s) == s

\* UPDATE prizes SET stock = GREATEST(stock - 1, 0) WHERE value = $1
decrement(s) == GREATEST(SqlMinusOne(s), Num(0))

\* Mutant of Update: the WHERE clause is missing, every row is decremented.
Update_NoWhere(r) ==
  /\ pc[r] = "update"
  /\ prizes' = [v \in DOMAIN prizes |-> decrement(prizes[v])]
  /\ awards' = [awards EXCEPT ![chosen[r]] = @ + 1]
  /\ Respond(r, 200, NoMessage)
  /\ UNCHANGED <<drawVars, deploy, now, prizes0, spins>>

\* await UPDATE prizes ..., then res.json({ok: true, ...}).
Update(r) ==
  /\ pc[r] = "update"
  /\ prizes' = [v \in DOMAIN prizes |->
                  IF v = chosen[r] THEN decrement(prizes[v]) ELSE prizes[v]]
  /\ awards' = [awards EXCEPT ![chosen[r]] = @ + 1]
  /\ Respond(r, 200, NoMessage)
  /\ UNCHANGED <<drawVars, deploy, now, prizes0, spins>>

\* Mutant of QueryFails: insert and update form one transaction, the failed
\* update rolls the row back.
QueryFails_Rollback(r) ==
  /\ pc[r] \in {"gate", "catalog", "insert", "update"}
  /\ Respond(r, 500, ServerError)
  /\ spins' = IF pc[r] = "update"
              THEN SelectSeq(spins, LAMBDA row :
                     ~(row.user_id = userId[r] /\ row.prize_value = chosen[r]
                       /\ row.spin_date = now))
              ELSE spins
  /\ UNCHANGED <<drawVars, deploy, now, prizes, prizes0, awards>>

\* A pool.query rejects (persistence failure): the catch answers 500.
QueryFails(r) ==
  /\ pc[r] \in {"gate", "catalog", "insert", "update"}
  /\ Respond(r, 500, ServerError)
  /\ UNCHANGED <<drawVars, deploy, now, prizes, prizes0, spins, awards>>

\* Time passes.
Tick ==
  /\ now < MaxTime
  /\ now' = now + 1
  /\ UNCHANGED <<drawVars, deploy, prizes, prizes0, spins, awards, pc, userId, chosen,
                 couponCode, status, message, shop>>

\* What every request does once it is received.
Handle ==
  \/ \E r \in Requests : Gate(r)
  \/ \E r \in Requests : Catalog(r)
  \/ \E r \in Requests, out \in {"throw", "norule", "ok"} : PriceRule(r, out)
  \/ \E r \in Requests, out \in {"throw", "nocode", "ok"} : DiscountCode(r, out)
  \/ \E r \in Requests : Insert(r)
  \/ \E r \in Requests : Update(r)
  \/ \E r \in Requests : QueryFails(r)
  \/ Tick

\* Requests arrive at any time, also while others are being handled.
Next ==
  \/ \E r \in Requests, u \in Users \cup {NoUser} : Receive(r, u)
  \/ Handle

Spec == Init /\ [][Next]_vars

\* A user sends the next request only after the previous one was answered;
\* the requests of different users still overlap.
ReceiveSeq(r, u) ==
  /\ \A q \in Requests : pc[q] \in {"idle", "done"} \/ userId[q] # u
  /\ Receive(r, u)

InitSeq == InitWith(MaxSeqRequests)

NextSeq ==
  \/ \E r \in Requests, u \in Users \cup {NoUser} : ReceiveSeq(r, u)
  \/ Handle

SpecSeq == InitSeq /\ [][NextSeq]_vars

\* ------------------------------------------------- the draw loop, draw by draw
\* Any prizes table: each value of the weight table has a row or none, and
\* a row has any stock.
DrawCatalogs ==
  UNION { [D -> GiftStocks] : D \in SUBSET Values }

\* One request right after its prizes query returned, before the do/while.
\* Nothing writes the table while the loop runs, so prizes is the snapshot
\* prizeMap.  The loop is the same in both revisions.
InitDraw ==
  /\ deploy = 1
  /\ now = 0
  /\ prizes \in DrawCatalogs
  /\ prizes0 = prizes
  /\ awards = [g \in Gifts |-> 0]
  /\ spins = <<>>
  /\ pc = <<"draw">>
  /\ userId = <<"u1">>
  /\ chosen = <<NoPrize>>
  /\ couponCode = <<NoCoupon>>
  /\ status = <<0>>
  /\ message = <<NoMessage>>
  /\ shop = <<"notcalled">>
  /\ table = PRIZE_CONFIG
  /\ nTries = 0
  /\ random = 0
  /\ confValue = NoPrize

\* Mutant of DrawStep: the gift without a row is taken for an exhausted one.
DrawStep_MissingRetries(r, d) ==
  /\ pc[r] = "draw"
  /\ LET conf == weightedRandom(table, d)
     IN /\ confValue' = conf.value
        /\ IF conf.value \notin DOMAIN prizes /\ ~startsWithCADEAU(conf.value)
           THEN /\ chosen' = [chosen EXCEPT ![r] = "nothing"]
                /\ Goto(r, "drawn")
                /\ UNCHANGED nTries
           ELSE IF /\ startsWithCADEAU(conf.value)
                   /\ \/ conf.value \notin DOMAIN prizes
                      \/ /\ prizes[conf.value] # NULL
                         /\ prizes[conf.value][1] <= 0
           THEN /\ nTries' = nTries + 1
                /\ IF nTries + 1 > MaxTries
                   THEN /\ chosen' = [chosen EXCEPT ![r] = "nothing"]
                        /\ Goto(r, "drawn")
                   ELSE UNCHANGED <<chosen, pc, status, message>>
           ELSE /\ chosen' = [chosen EXCEPT ![r] = conf.value]
                /\ Goto(r, "drawn")
                /\ UNCHANGED nTries
  /\ UNCHANGED <<table, random, deploy, now, prizes, prizes0, spins, awards,
                 userId, couponCode, shop>>

\* Mutant of DrawStep: tries++ is missing.
DrawStep_NoCount(r, d) ==
  /\ pc[r] = "draw"
  /\ LET conf == weightedRandom(table, d)
     IN /\ confValue' = conf.value
        /\ UNCHANGED nTries
        /\ IF conf.value \notin DOMAIN prizes
           THEN /\ chosen' = [chosen EXCEPT ![r] = "nothing"]
                /\ Goto(r, "drawn")
           ELSE IF /\ startsWithCADEAU(conf.value)
                   /\ prizes[conf.value] # NULL
                   /\ prizes[conf.value][1] <= 0
           THEN IF nTries > MaxTries
                THEN /\ chosen' = [chosen EXCEPT ![r] = "nothing"]
                     /\ Goto(r, "drawn")
                ELSE UNCHANGED <<chosen, pc, status, message>>
           ELSE /\ chosen' = [chosen EXCEPT ![r] = conf.value]
                /\ Goto(r, "drawn")
  /\ UNCHANGED <<table, random, deploy, now, prizes, prizes0, spins, awards,
                 userId, couponCode, shop>>

\* One pass of the do/while with Math.random() * total = d: the entry
\* without a row breaks with "nothing"; the exhausted gift counts a try and
\* continues, or breaks with "nothing" past MaxTries; anything else is
\* chosen.  continue leaves chosen undefined, so while (!chosen) goes on.
DrawStep(r, d) ==
  /\ pc[r] = "draw"
  /\ LET conf == weightedRandom(table, d)
     IN /\ confValue' = conf.value
        /\ IF conf.value \notin DOMAIN prizes
           THEN /\ chosen' = [chosen EXCEPT ![r] = "nothing"]
                /\ Goto(r, "drawn")
                /\ UNCHANGED nTries
           ELSE IF /\ startsWithCADEAU(conf.value)
                   /\ prizes[conf.value] # NULL
                   /\ prizes[conf.value][1] <= 0
           THEN /\ nTries' = nTries + 1
                /\ IF nTries + 1 > MaxTries
                   THEN /\ chosen' = [chosen EXCEPT ![r] = "nothing"]
                        /\ Goto(r, "drawn")
                   ELSE UNCHANGED <<chosen, pc, status, message>>
           ELSE /\ chosen' = [chosen EXCEPT ![r] = conf.value]
                /\ Goto(r, "drawn")
                /\ UNCHANGED nTries
  /\ UNCHANGED <<table, random, deploy, now, prizes, prizes0, spins, awards,
                 userId, couponCode, shop>>

NextDraw == \E r \in Requests, d \in DrawValues : DrawStep(r, d)

\* The loop is synchronous code: once entered it runs on.
SpecDraw == InitDraw /\ [][NextDraw]_vars /\ WF_vars(NextDraw)

\* ------------------------------------------------------ weightedRandom alone
\* The lists handed to weightedRandom alone: the first entries of
\* PRIZE_CONFIG, up to MaxLen of them, with any weights up to MaxWeight.
WeightTables ==
  UNION { { [i \in 1..n |-> [value |-> PRIZE_CONFIG[i].value, weight |-> w[i]]]
            : w \in [1..n -> 0..MaxWeight] }
          : n \in 1..MaxLen }

\* A list and a draw value; total(table) itself is the value that overruns
\* the end of the walk.
InitWeighted ==
  /\ table \in WeightTables
  /\ random \in 0..total(table)
  /\ confValue = NoPrize
  /\ nTries = 0
  /\ deploy = 1
  /\ now = 0
  /\ prizes = [v \in {"nothing"} |-> NULL]
  /\ prizes0 = prizes
  /\ awards = [g \in Gifts |-> 0]
  /\ spins = <<>>
  /\ pc = <<>>
  /\ userId = <<>>
  /\ chosen = <<>>
  /\ couponCode = <<>>
  /\ status = <<>>
  /\ message = <<>>
  /\ shop = <<>>

\* const conf = weightedRandom(list)
Select ==
  /\ confValue = NoPrize
  /\ confValue' = weightedRandom(table, random).value
  /\ UNCHANGED <<table, nTries, random, deploy, now, prizes, prizes0, spins,
                 awards, pc, userId, chosen, couponCode, status, message, shop>>

NextWeighted == Select

SpecWeighted == InitWeighted /\ [][NextWeighted]_vars

\* ------------------------------------------------------- claims: vocabulary
\* The calendar day an instant lies in.
CalendarDay(t) ==
  CHOOSE d \in 0..MaxTime : d * TicksPerDay <= t /\ t < (d + 1) * TicksPerDay

\* The rows of user u, and the row u inserted last.
RowsOf(u) == {i \in 1..Len(spins) : spins[i].user_id = u}
MostRecent(u) == spins[CHOOSE i \in RowsOf(u) : \A j \in RowsOf(u) : j <= i]

\* The gifts that have a row with a finite stock in the seeded table.
FiniteGifts == {g \in Gifts \cap DOMAIN prizes0 : prizes0[g] # NULL}

Max(a, b) == IF a >= b THEN a ELSE b

\* The request that takes the step, if it leaves its await.
Leaves(r, label) == pc[r] = label /\ pc'[r] # label

\* -------------------------------------------------------------------- claims
\* C1: in every reachable state the stock of every prize row with a finite
\* stock is >= 0, also after concurrent awards of the last unit of a gift.
C1_StockNeverNegative ==
  \A v \in DOMAIN prizes : prizes[v] # NULL => prizes[v][1] >= 0

\* More awards of a gift than it had units: the clamp was needed.
C1_Witness ==
  \E g \in FiniteGifts :
    prizes0[g][1] > 0 /\ awards[g] > prizes0[g][1] /\ prizes[g] = Num(0)

\* C2: a request that reads the catalog while a gift's stock is 0 never
\* ends its draw with that gift; what it ends with is a value of the weight
\* table (the exhausted gift is retried or falls back to "nothing").
C2_ExhaustedGiftNeverDrawn ==
  [][\A r \in Requests :
       Leaves(r, "catalog") /\ chosen'[r] # NoPrize =>
         /\ chosen'[r] \in Values
         /\ chosen'[r] \in Gifts => prizes[chosen'[r]] # Num(0)]_vars

\* A draw made with a gift exhausted from the start ended with another
\* value, in a behaviour where a gift was awarded down to stock 0.
C2_Witness ==
  \E g \in FiniteGifts, r \in Requests :
    /\ prizes0[g] = Num(0)
    /\ pc[r] = "insert" /\ chosen[r] \in Values \ {g}
    /\ \E h \in FiniteGifts : awards[h] > 0 /\ prizes[h] = Num(0)

\* C3: the gate lets a user through exactly when the user has no row or
\* the most recent row is dated on another calendar day than now: no row is
\* always eligible, a row of today never, a row of a prior day always
\* (calendar days, not a rolling window of 24 hours).
C3_GateDecidesByCalendarDay ==
  [][\A r \in Requests :
       Leaves(r, "gate") /\ status'[r] # 500 =>
         LET u == userId[r]
             passed == pc'[r] = "catalog"
             rejected == status'[r] = 400 /\ message'[r] = AlreadyPlayed
         IN /\ passed \/ rejected
            /\ RowsOf(u) = {} => passed
            /\ RowsOf(u) # {} =>
                 IF CalendarDay(MostRecent(u).spin_date) = CalendarDay(now)
                 THEN rejected ELSE passed]_vars

\* A user with a row of an earlier day, inserted less than one day ago, got
\* through the gate, and a request was turned away by it.
C3_Witness ==
  /\ \E r \in Requests :
       /\ pc[r] = "catalog" /\ RowsOf(userId[r]) # {}
       /\ now - MostRecent(userId[r]).spin_date < TicksPerDay
  /\ \E r \in Requests : message[r] = AlreadyPlayed

\* C4: when the requests of each user are handled one after another, no
\* two rows of spins have the same user and the same calendar day.
C4_OneSpinPerUserPerDay ==
  \A i, j \in 1..Len(spins) :
    i < j /\ spins[i].user_id = spins[j].user_id =>
      CalendarDay(spins[i].spin_date) # CalendarDay(spins[j].spin_date)

\* A user played on two days and was turned away in between.
C4_Witness ==
  /\ \E u \in Users : Cardinality(RowsOf(u)) = 2
  /\ \E r \in Requests : message[r] = AlreadyPlayed

\* C5: a gift seeded with the finite stock s has, after k awards, the stock
\* s - k when k <= s and 0 when k > s.
C5_StockIsSeedMinusAwards ==
  \A g \in FiniteGifts : prizes[g] = Num(Max(prizes0[g][1] - awards[g], 0))

\* Some but not more awards than units.
C5_Witness ==
  \E g \in FiniteGifts : awards[g] > 0 /\ awards[g] <= prizes0[g][1]

\* C6: when coupon issuance fails for a discount prize (the platform is
\* unreachable, answers non-2xx or sends a malformed body), the spin still
\* succeeds: the handler goes on to record the spin with couponCode null,
\* and the failure is not answered as a failed spin.
C6_CouponFailureStillSucceeds ==
  [][\A r \in Requests :
       /\ pc[r] \in {"priceRule", "discountCode"}
       /\ pc'[r] \notin {pc[r], "discountCode"}
       /\ shop'[r] # "issued"
       => /\ pc'[r] = "insert"
          /\ status'[r] = 0
          /\ couponCode'[r] = NoCoupon]_vars

\* C7: within one request the row of spins is inserted before the platform
\* is asked for a coupon: a request that has called the platform has its
\* insert behind it.
C7_SpinRecordedBeforeCouponCall ==
  \A r \in Requests : shop[r] # "notcalled" => pc[r] \in {"update", "done"}

\* C8: a request carries a coupon code, or has asked the platform for one,
\* only if its prize is one of the discounts; "nothing" and the gifts have
\* couponCode null and no call to the platform.
C8_CouponOnlyForDiscounts ==
  \A r \in Requests :
    couponCode[r] # NoCoupon \/ shop[r] # "notcalled" => chosen[r] \in Discounts

\* One request holds a coupon code for its discount while another is about
\* to record "nothing" without one.
C8_Witness ==
  \E r, q \in Requests :
    /\ pc[r] = "insert" /\ chosen[r] \in Discounts /\ couponCode[r] # NoCoupon
    /\ pc[q] = "insert" /\ chosen[q] = "nothing" /\ couponCode[q] = NoCoupon

\* C9: the step that answers a request with 400 (userId missing, or the
\* gate rejects) is taken by a request that has written nothing so far, ends
\* it, and changes no row of spins, no stock and no call to the platform.
C9_RejectionChangesNothing ==
  [][\A r \in Requests :
       status[r] = 0 /\ status'[r] = 400 =>
         /\ pc[r] \in {"idle", "gate"}
         /\ pc'[r] = "done"
         /\ UNCHANGED <<spins, prizes, awards, shop>>]_vars

\* Both rejections happened, with a spin recorded by then.
C9_Witness ==
  /\ \E r \in Requests : status[r] = 400 /\ message[r] = AlreadyPlayed
  /\ Len(spins) > 0

\* C10: spins is append-only with one row per successful draw: a step
\* leaves the rows there are as they are and appends at most one, a row is
\* appended only by the insert of a request and carries its userId and its
\* prize, and a request answered 200 has appended its row.
C10_SpinsAppendOnly ==
  [][/\ Len(spins') \in {Len(spins), Len(spins) + 1}
     /\ \A i \in 1..Len(spins) : spins'[i] = spins[i]
     /\ spins' # spins =>
          \E r \in Requests :
            /\ Leaves(r, "insert")
            /\ spins'[Len(spins')] = [user_id |-> userId[r],
                                       prize_value |-> chosen[r],
                                       spin_date |-> now]
     /\ \A r \in Requests :
          status[r] = 0 /\ status'[r] = 200 =>
            IF pc[r] = "insert"
            THEN /\ Len(spins') = Len(spins) + 1
                 /\ spins'[Len(spins')].user_id = userId[r]
                 /\ spins'[Len(spins')].prize_value = chosen[r]
            ELSE /\ pc[r] = "update"
                 /\ \E i \in RowsOf(userId[r]) : spins[i].prize_value = chosen[r]
     /\ Len(spins') >= Cardinality({r \in Requests :
                                      status'[r] = 200 \/ pc'[r] = "update"})
    ]_vars

\* Two requests were answered 200 and spins holds their two rows.
C10_Witness ==
  /\ Len(spins) = 2
  /\ Cardinality({r \in Requests : status[r] = 200}) = 2

\* The gift whose row reads a finite stock <= 0.
Exhausted(v) ==
  v \in Gifts /\ v \in DOMAIN prizes /\ prizes[v] # NULL /\ prizes[v][1] <= 0

\* C11: the draw loop ends, and ends with a value of the weight table; a
\* pass goes round again only when it drew an exhausted gift, and then it
\* counted a try and no more than MaxTries are counted that way; the try
\* past MaxTries ends the loop with "nothing".
C11_DrawLoopTerminates ==
  /\ <>(\A r \in Requests : pc[r] = "drawn")
  /\ [](\A r \in Requests :
          /\ pc[r] = "drawn" => chosen[r] \in Values
          /\ pc[r] = "draw" => chosen[r] = NoPrize /\ nTries <= MaxTries
          /\ nTries <= MaxTries + 1)
  /\ [][\A r \in Requests :
          /\ pc[r] = "draw" /\ pc'[r] = "draw" =>
               Exhausted(confValue') /\ nTries' = nTries + 1
          /\ nTries' > MaxTries => pc'[r] = "drawn" /\ chosen'[r] = "nothing"
       ]_vars

\* Every gift has a row and is exhausted, and the loop gave up after the
\* try past MaxTries.
C11_Witness ==
  /\ \A g \in Gifts : Exhausted(g)
  /\ nTries = MaxTries + 1
  /\ \E r \in Requests : pc[r] = "drawn" /\ chosen[r] = "nothing"

\* The requests of r's user that passed the gate and have not inserted.
AheadOf(r) ==
  {q \in Requests \ {r} :
     /\ userId[q] = userId[r]
     /\ pc[q] \in {"catalog", "priceRule", "discountCode", "insert"}}

\* C12: nothing serializes the gate per user: a request whose user has no
\* row dated today passes the gate also while another request of the same
\* user is past the gate with its row not inserted yet, so both go on to
\* insert a row for the same day.
C12_GateIgnoresRequestsInFlight ==
  [][\A r \in Requests :
       /\ Leaves(r, "gate") /\ status'[r] # 500
       /\ AheadOf(r) # {}
       /\ \A i \in RowsOf(userId[r]) :
            CalendarDay(spins[i].spin_date) # CalendarDay(now)
       => pc'[r] = "catalog"]_vars

\* Two rows of one user on one calendar day.
C12_Witness ==
  \E i, j \in 1..Len(spins) :
    /\ i < j
    /\ spins[i].user_id = spins[j].user_id
    /\ CalendarDay(spins[i].spin_date) = CalendarDay(spins[j].spin_date)

\* C13: a pass that draws an entry without a row in the snapshot, be it a
\* gift, a discount or "nothing", ends the loop at once with "nothing": no
\* try is counted, no error is answered.
C13_MissingEntryYieldsNothing ==
  [][\A r \in Requests :
       pc[r] = "draw" /\ confValue' \notin DOMAIN prizes =>
         /\ pc'[r] = "drawn"
         /\ chosen'[r] = "nothing"
         /\ nTries' = nTries
         /\ status'[r] = 0]_vars

\* After some retries a gift without a row was drawn, and the loop ended
\* with "nothing" below the cap.
C13_Witness ==
  \E r \in Requests :
    /\ pc[r] = "drawn" /\ chosen[r] = "nothing"
    /\ confValue \in Gifts \ DOMAIN prizes
    /\ nTries > 0 /\ nTries <= MaxTries

\* C14: a pass that draws "nothing" or a discount that has a row ends the
\* loop with that value whatever the stock in the row, 0 included, and
\* counts no try.
C14_NonGiftAccepted ==
  [][\A r \in Requests :
       pc[r] = "draw" /\ confValue' \in DOMAIN prizes \ Gifts =>
         /\ pc'[r] = "drawn"
         /\ chosen'[r] = confValue'
         /\ nTries' = nTries]_vars

\* A discount with stock 0 was chosen.
C14_Witness ==
  \E r \in Requests :
    /\ pc[r] = "drawn" /\ chosen[r] \in Discounts
    /\ confValue = chosen[r]
    /\ prizes[chosen[r]] = Num(0)

\* C15: the rows of prizes are changed only by the stock update of a
\* request that drew a gift, and that update changes the stock of this gift
\* and of no other row; a request that ends with "nothing" or a discount
\* leaves prizes as it is; no row is ever added or removed.
C15_OnlyGiftAwardChangesPrizes ==
  [][/\ DOMAIN prizes' = DOMAIN prizes
     /\ prizes' # prizes =>
          \E r \in Requests :
            /\ Leaves(r, "update") /\ status'[r] = 200
            /\ chosen[r] \in Gifts
            /\ \A v \in DOMAIN prizes \ {chosen[r]} : prizes'[v] = prizes[v]
     /\ \A r \in Requests :
          pc[r] # "done" /\ pc'[r] = "done" /\ chosen[r] \notin Gifts =>
            prizes' = prizes]_vars

\* A gift was awarded and its stock changed, every other row is as seeded,
\* and a request that drew no gift has been answered 200.
C15_Witness ==
  /\ \E g \in Gifts \cap DOMAIN prizes :
       /\ awards[g] > 0 /\ prizes[g] # prizes0[g]
       /\ \A v \in DOMAIN prizes \ {g} : prizes[v] = prizes0[v]
  /\ \E i \in 1..Len(spins) : spins[i].prize_value \notin Gifts
  /\ \A r \in Requests : status[r] = 200

\* C16: the row of spins is inserted before the stock is updated, and when
\* the update then fails the request is answered 500 with the row kept and
\* the stock as it was.
C16_FailedUpdateKeepsRow ==
  [][\A r \in Requests :
       /\ pc'[r] = "update" /\ pc[r] # "update" =>
            /\ pc[r] = "insert"
            /\ Len(spins') = Len(spins) + 1
            /\ spins'[Len(spins')].user_id = userId[r]
            /\ spins'[Len(spins')].prize_value = chosen[r]
            /\ prizes' = prizes
       /\ pc[r] = "update" /\ status'[r] = 500 =>
            /\ message'[r] = ServerError
            /\ pc'[r] = "done"
            /\ spins' = spins
            /\ \E i \in RowsOf(userId[r]) : spins[i].prize_value = chosen[r]
            /\ prizes' = prizes /\ awards' = awards]_vars

\* A gift with a finite stock has a row of spins, no award was applied to
\* its stock, and the request that won it was answered 500.
C16_Witness ==
  /\ \E g \in FiniteGifts :
       /\ prizes0[g][1] > 0 /\ prizes[g] = prizes0[g] /\ awards[g] = 0
       /\ \E i \in 1..Len(spins) : spins[i].prize_value = g
  /\ \A r \in Requests : pc[r] \in {"idle", "done"}
  /\ \E r \in Requests : status[r] = 500

\* The sum of the weights of the first i entries of the table.
Cumulative(i) == SumWeights(table, i)

\* The integer draw values below the total that select entry i.
Selecting(i) ==
  {r \in 0..(total(table) - 1) : weightedRandom(table, r) = table[i]}

\* C17: for a draw value below the total weight, weightedRandom returns the
\* first entry in list order whose cumulative weight exceeds the draw
\* value, so that exactly weight(p) of the integer draw values select the
\* entry p; a draw value that overruns the end returns the last entry.
C17_WeightedRandomWalk ==
  confValue # NoPrize =>
    /\ \E i \in 1..Len(table) :
         /\ confValue = table[i].value
         /\ IF random < total(table)
            THEN /\ Cumulative(i) > random
                 /\ \A j \in 1..(i - 1) : Cumulative(j) <= random
            ELSE i = Len(table)
    /\ \A i \in 1..Len(table) : Cardinality(Selecting(i)) = table[i].weight

\* An entry past the first was selected, over an entry of weight 0 in a
\* list whose last entry has a weight too.
C17_Witness ==
  /\ Len(table) = MaxLen
  /\ confValue = table[2].value
  /\ random < total(table)
  /\ table[1].weight = 0
  /\ table[Len(table)].weight > 0

\* The rows of spins that award the gift g.
AwardsOf(g) == {i \in 1..Len(spins) : spins[i].prize_value = g}

\* C18: a gift seeded with the finite stock s has at most s rows of spins
\* awarding it, however the requests interleave.
C18_AwardsWithinStock ==
  \A g \in FiniteGifts : Cardinality(AwardsOf(g)) <= prizes0[g][1]

\* C19: a gift seeded with an unlimited (NULL) stock keeps it: awards do not
\* turn its stock into a number.
C19_UnlimitedStaysUnlimited ==
  \A g \in Gifts \cap DOMAIN prizes : prizes0[g] = NULL => prizes[g] = NULL

=============================================================================
